---- MODULE Spec2Model ----
(***************************************************************************)
(* Smart-agriculture monitoring: the IoT sensor simulator, the crop yield  *)
(* predictor and the agriculture system core (sensors, crops, alerts,      *)
(* learning buffer, irrigation rule).                                      *)
(*                                                                         *)
(* Numbers.  The program computes in binary floating point.  The model     *)
(* computes in fixed point: sensor values and yields are integers counting *)
(* hundredths (25.0 is 2500), factors are integers at the scale named next *)
(* to each operator, and a division floors unless the code rounds.         *)
(*                                                                         *)
(* Text.  A message is the sequence of its words, a sensor value printed   *)
(* by FormatFloat and its unit being words of their own; "x in message"    *)
(* and "message.startswith(x)" are the contiguous-subsequence and prefix   *)
(* tests on the words.  Alert ids are the strings the code builds.         *)
(***************************************************************************)
EXTENDS Integers, Sequences, FiniteSets, TLC

VARIABLES
    sensors,             \* SmartAgricultureSystem.sensors: value and status of each sensor
    crops,               \* SmartAgricultureSystem.crops: predicted_yield of each crop
    alerts,              \* SmartAgricultureSystem.alerts
    learning_data,       \* SmartAgricultureSystem.learning_data
    irrigation_schedule, \* SmartAgricultureSystem.irrigation_schedule (a dict)
    predictor,           \* SmartAgricultureSystem.predictor: "None" or "set"
    is_trained,          \* CropYieldPredictor.is_trained
    model_weights,       \* CropYieldPredictor.model_weights
    sensor_states,       \* IoTSensorSimulator.sensor_states
    clock,               \* the wall clock, in whole seconds (time.time(), datetime.now())
    call                 \* the last call made on the program, its arguments and its result

vars == <<sensors, crops, alerts, learning_data, irrigation_schedule, predictor,
          is_trained, model_weights, sensor_states, clock, call>>

coreVars == <<sensors, crops, alerts, learning_data, irrigation_schedule>>
predictorVars == <<predictor, is_trained, model_weights>>

-----------------------------------------------------------------------------
(* Bounds of the model *)

MaxClock == 1        \* the clock runs from 0 to MaxClock
MaxCalls == 3        \* calls made on the system core in one run
MaxSimCalls == 2     \* calls made on the simulator in one run
MaxPredCalls == 3    \* calls made on the predictor and the core in one run
MaxStatusCalls == 2  \* calls made in one run of the status classification
MaxNormCalls == 2    \* calls made in one run of the normalization
MaxLearnCalls == 102 \* calls made in one run that fills the learning buffer
MaxAppCalls == 3     \* calls the dashboard makes on the core in one run
MaxTrendCalls == 12  \* calls made in one run of the trend detection
MaxWaterCalls == 2   \* calls made in one run of the water factor
MaxCycleCalls == 11  \* calls made in one run of update cycles

-----------------------------------------------------------------------------
(* Arithmetic helpers *)

Max(a, b) == IF a >= b THEN a ELSE b
Min(a, b) == IF a <= b THEN a ELSE b
Abs(a) == IF a >= 0 THEN a ELSE -a

\* Python's round(): n/d to the nearest integer, a tie to the even one (d > 0).
RoundDiv(n, d) ==
    LET q == n \div d
        r == n % d
    IN  IF 2 * r < d THEN q
        ELSE IF 2 * r > d THEN q + 1
        ELSE IF q % 2 = 0 THEN q ELSE q + 1

\* str() of a float with at most two decimals, v counting hundredths:
\* 2500 is "25.0", 2160 is "21.6", 36 is "0.36", -50 is "-0.5".
FormatFloat(v) ==
    LET a == Abs(v)
        frac == a % 100
        digits == IF frac % 10 = 0 THEN ToString(frac \div 10)
                  ELSE ToString(frac \div 10) \o ToString(frac % 10)
    IN  (IF v < 0 THEN "-" ELSE "") \o ToString(a \div 100) \o "." \o digits

\* Python's "x in message" on words: x is a contiguous part of message.
Contains(message, x) ==
    \E k \in 0..(Len(message) - Len(x)) :
        \A j \in 1..Len(x) : message[k + j] = x[j]

\* Python's message.startswith(x) on words.
StartsWith(message, x) ==
    /\ Len(x) <= Len(message)
    /\ \A j \in 1..Len(x) : message[j] = x[j]

-----------------------------------------------------------------------------
(* SmartAgricultureSystem: configuration *)

\* initialize_sensors: the seven sensors, optimal ranges in hundredths.
sensor_configs == <<
    [id |-> "soil_moisture",  name |-> <<"Soil", "Moisture">>,  unit |-> <<"%">>,     optimal_range |-> <<2000, 4000>>],
    [id |-> "soil_ph",        name |-> <<"Soil", "pH">>,        unit |-> <<"pH">>,    optimal_range |-> <<550, 750>>],
    [id |-> "temperature",    name |-> <<"Temperature">>,       unit |-> <<"C">>,     optimal_range |-> <<1500, 3000>>],
    [id |-> "rainfall",       name |-> <<"Rainfall">>,          unit |-> <<"mm">>,    optimal_range |-> <<10000, 20000>>],
    [id |-> "humidity",       name |-> <<"Humidity">>,          unit |-> <<"%">>,     optimal_range |-> <<5000, 8000>>],
    [id |-> "sunlight_hours", name |-> <<"Sunlight", "Hours">>, unit |-> <<"hours">>, optimal_range |-> <<500, 800>>],
    [id |-> "NDVI_index",     name |-> <<"NDVI", "Index">>,     unit |-> <<>>,        optimal_range |-> <<30, 80>>] >>

SensorIdx == 1..Len(sensor_configs)

\* initialize_crops: the three crops; only predicted_yield changes later.
crops_data == <<
    [crop_type |-> "Wheat",   health_score |-> 85, growth_stage |-> "Flowering",  health_status |-> "None"],
    [crop_type |-> "Soybean", health_score |-> 92, growth_stage |-> "Maturation", health_status |-> "Mild"],
    [crop_type |-> "Maize",   health_score |-> 78, growth_stage |-> "Vegetative", health_status |-> "Moderate"] >>

CropIdx == 1..Len(crops_data)

\* next((s for s in self.sensors if s.id == id), None): 0 stands for None.
FindSensor(id) ==
    IF \E i \in SensorIdx : sensor_configs[i].id = id
    THEN CHOOSE i \in SensorIdx :
            /\ sensor_configs[i].id = id
            /\ \A j \in 1..(i - 1) : sensor_configs[j].id # id
    ELSE 0

-----------------------------------------------------------------------------
(* SmartAgricultureSystem: the operations as functions of the state *)

\* generate_sensor_reading with a variation of 60 percent of the range width.
generate_sensor_reading_wide(optimal_range, rf, tf) ==
    LET min_val == optimal_range[1]
        max_val == optimal_range[2]
        new_value == (min_val + max_val) * 50 + (max_val - min_val) * 6 * rf
    IN  RoundDiv(new_value * tf, 10000)

\* generate_sensor_reading.  rf is the draw (random.random() - 0.5) * 2 in
\* tenths, tf the draw random.uniform(0.9, 1.1) in hundredths.  new_value is
\* held in ten-thousandths: base_value is (min + max) * 50 and
\* variation * random_factor is (max - min) * 3 * rf.
generate_sensor_reading(optimal_range, rf, tf) ==
    LET min_val == optimal_range[1]
        max_val == optimal_range[2]
        new_value == (min_val + max_val) * 50 + (max_val - min_val) * 3 * rf
    IN  RoundDiv(new_value * tf, 10000)

\* update_sensor_status with the thresholds themselves counted as crossed.
update_sensor_status_inclusive(value, optimal_range) ==
    LET min_val == optimal_range[1]
        max_val == optimal_range[2]
    IN  IF value * 10 <= min_val * 8 \/ value * 10 >= max_val * 12 THEN "critical"
        ELSE IF value * 10 <= min_val * 9 \/ value * 10 >= max_val * 11 THEN "warning"
        ELSE "optimal"

\* update_sensor_status: value < min * 0.8 is value * 10 < min * 8, and so on.
update_sensor_status(value, optimal_range) ==
    LET min_val == optimal_range[1]
        max_val == optimal_range[2]
    IN  IF value * 10 < min_val * 8 \/ value * 10 > max_val * 12 THEN "critical"
        ELSE IF value * 10 < min_val * 9 \/ value * 10 > max_val * 11 THEN "warning"
        ELSE "optimal"

SystemAlert(id, type, message, t) ==
    [id |-> id, type |-> type, message |-> message, timestamp |-> t, resolved |-> FALSE]

\* create_predictive_alert that looks for an unresolved predictive alert of any sensor.
create_predictive_alert_any_sensor(al, i, trend, t) ==
    LET name == sensor_configs[i].name
        alert_id == "predictive_" \o sensor_configs[i].id \o "_" \o ToString(t)
        existing_alert == \E k \in 1..Len(al) :
            StartsWith(al[k].message, <<"Predictive:">>) /\ ~al[k].resolved
        message == <<"Predictive:">> \o name \o
                   <<"showing", trend, "trend", "-", "may", "need", "attention", "soon">>
    IN  IF ~existing_alert
        THEN Append(al, SystemAlert(alert_id, "warning", message, t))
        ELSE al

\* create_predictive_alert: the alert list after the call.
create_predictive_alert(al, i, trend, t) ==
    LET name == sensor_configs[i].name
        alert_id == "predictive_" \o sensor_configs[i].id \o "_" \o ToString(t)
        existing_alert == \E k \in 1..Len(al) :
            StartsWith(al[k].message, <<"Predictive:">> \o name) /\ ~al[k].resolved
        message == <<"Predictive:">> \o name \o
                   <<"showing", trend, "trend", "-", "may", "need", "attention", "soon">>
    IN  IF ~existing_alert
        THEN Append(al, SystemAlert(alert_id, "warning", message, t))
        ELSE al

\* Trend with the two thresholds themselves counted as a change.
Trend_inclusive(recent_data, i) ==
    LET first == recent_data[1][i]
        last == recent_data[Len(recent_data)][i]
    IN  IF Len(recent_data) > 1 /\ last * 10 >= first * 11 THEN "increasing"
        ELSE IF Len(recent_data) > 1 /\ last * 10 <= first * 9 THEN "decreasing"
        ELSE "stable"

\* analyze_patterns, one sensor: the trend of column i of the last ten vectors.
Trend(recent_data, i) ==
    LET first == recent_data[1][i]
        last == recent_data[Len(recent_data)][i]
    IN  IF Len(recent_data) > 1 /\ last * 10 > first * 11 THEN "increasing"
        ELSE IF Len(recent_data) > 1 /\ last * 10 < first * 9 THEN "decreasing"
        ELSE "stable"

\* analyze_patterns: the loop over the sensors, from sensor i on.
RECURSIVE analyze_patterns_from(_, _, _, _, _)
analyze_patterns_from(i, ld, ss, al, t) ==
    IF i > Len(sensor_configs) THEN al
    ELSE LET recent_data == SubSeq(ld, Max(1, Len(ld) - 9), Len(ld))
             trend == Trend(recent_data, i)
             al2 == IF i <= Len(recent_data[1]) /\ trend # "stable" /\ ss[i].status = "warning"
                    THEN create_predictive_alert(al, i, trend, t)
                    ELSE al
         IN  analyze_patterns_from(i + 1, ld, ss, al2, t)

analyze_patterns(ld, ss, al, t) == analyze_patterns_from(1, ld, ss, al, t)

\* learn_from_data that drops the newest vector when the buffer is full.
learn_from_data_evict_newest(ld, sensor_data, ss, al, t) ==
    LET appended == Append(ld, sensor_data)
        ld2 == IF Len(appended) > 100 THEN SubSeq(appended, 1, Len(appended) - 1) ELSE appended
    IN  <<ld2, IF Len(ld2) >= 10 THEN analyze_patterns(ld2, ss, al, t) ELSE al>>

\* learn_from_data: the learning buffer and the alert list after the call.
learn_from_data(ld, sensor_data, ss, al, t) ==
    LET appended == Append(ld, sensor_data)
        ld2 == IF Len(appended) > 100 THEN Tail(appended) ELSE appended
    IN  <<ld2, IF Len(ld2) >= 10 THEN analyze_patterns(ld2, ss, al, t) ELSE al>>

\* existing_error_alert with the test of the resolved flag inverted.
existing_error_alert_resolved(al, i) ==
    \E k \in 1..Len(al) :
        /\ Contains(al[k].message, sensor_configs[i].name)
        /\ al[k].type = "error"
        /\ al[k].resolved

\* check_for_alerts: is there an unresolved error alert naming sensor i.
existing_error_alert(al, i) ==
    \E k \in 1..Len(al) :
        /\ Contains(al[k].message, sensor_configs[i].name)
        /\ al[k].type = "error"
        /\ ~al[k].resolved

\* check_for_alerts: the loop over the sensors, from sensor i on.
RECURSIVE check_for_alerts_from(_, _, _, _)
check_for_alerts_from(i, ss, al, t) ==
    IF i > Len(sensor_configs) THEN al
    ELSE LET cfg == sensor_configs[i]
             alert_id == "critical_" \o cfg.id \o "_" \o ToString(t)
             message == cfg.name \o <<"is", "at", "critical", "level:">> \o
                        <<FormatFloat(ss[i].value)>> \o cfg.unit
             al2 == IF ss[i].status = "critical" /\ ~existing_error_alert(al, i)
                    THEN Append(al, SystemAlert(alert_id, "error", message, t))
                    ELSE al
         IN  check_for_alerts_from(i + 1, ss, al2, t)

check_for_alerts(ss, al, t) == check_for_alerts_from(1, ss, al, t)

\* The dict irrigation_schedule: {} and {'field_1': True}.
EmptyDict == [k \in {} |-> TRUE]
DictGet(d, k, default) == IF k \in DOMAIN d THEN d[k] ELSE default
DictSet(d, k, v) == [x \in DOMAIN d \cup {k} |-> IF x = k THEN v ELSE d[x]]

\* auto_irrigate that raises no second alert while an irrigation alert is unresolved.
auto_irrigate_deduplicated(ss, al, irr, t) ==
    LET i == FindSensor("soil_moisture")
        existing == \E k \in 1..Len(al) : al[k].type = "info" /\ ~al[k].resolved
    IN  IF i # 0 /\ ss[i].value < 3000
        THEN <<IF existing THEN al
               ELSE Append(al, SystemAlert("irrigation_" \o ToString(t), "info",
                    <<"Automatic", "irrigation", "activated", "-", "Soil", "moisture:",
                      FormatFloat(ss[i].value), "%">>, t)),
               DictSet(irr, "field_1", TRUE)>>
        ELSE <<al, irr>>

\* auto_irrigate that switches the irrigation off when the soil is moist again.
auto_irrigate_switching_off(ss, al, irr, t) ==
    LET i == FindSensor("soil_moisture")
    IN  IF i # 0 /\ ss[i].value < 3000
        THEN <<Append(al, SystemAlert("irrigation_" \o ToString(t), "info",
                    <<"Automatic", "irrigation", "activated", "-", "Soil", "moisture:",
                      FormatFloat(ss[i].value), "%">>, t)),
               DictSet(irr, "field_1", TRUE)>>
        ELSE <<al, DictSet(irr, "field_1", FALSE)>>

\* auto_irrigate: the alert list and the irrigation schedule after the call.
auto_irrigate(ss, al, irr, t) ==
    LET i == FindSensor("soil_moisture")
    IN  IF i # 0 /\ ss[i].value < 3000
        THEN <<Append(al, SystemAlert("irrigation_" \o ToString(t), "info",
                    <<"Automatic", "irrigation", "activated", "-", "Soil", "moisture:",
                      FormatFloat(ss[i].value), "%">>, t)),
               DictSet(irr, "field_1", TRUE)>>
        ELSE <<al, irr>>

\* get_alerts, get_system_status, generate_report.
get_alerts(al) == SelectSeq(al, LAMBDA a : ~a.resolved)

\* get_system_status that looks at the warnings first.
get_system_status_warning_first(ss) ==
    LET critical_sensors == Cardinality({i \in SensorIdx : ss[i].status = "critical"})
        warning_sensors == Cardinality({i \in SensorIdx : ss[i].status = "warning"})
    IN  IF warning_sensors > 0 THEN "Warning"
        ELSE IF critical_sensors > 0 THEN "Critical" ELSE "Optimal"

get_system_status(ss) ==
    LET critical_sensors == Cardinality({i \in SensorIdx : ss[i].status = "critical"})
        warning_sensors == Cardinality({i \in SensorIdx : ss[i].status = "warning"})
    IN  IF critical_sensors > 0 THEN "Critical"
        ELSE IF warning_sensors > 0 THEN "Warning" ELSE "Optimal"

generate_report(ss, cr, al, t) ==
    [timestamp |-> t,
     system_status |-> get_system_status(ss),
     sensors |-> Len(sensor_configs),
     crops |-> Len(crops_data),
     active_alerts |-> Len(get_alerts(al)),
     sensor_data |-> [i \in SensorIdx |->
        [name |-> sensor_configs[i].name, value |-> ss[i].value,
         unit |-> sensor_configs[i].unit, status |-> ss[i].status]],
     crop_predictions |-> [c \in CropIdx |->
        [type |-> crops_data[c].crop_type, predicted_yield |-> cr[c].predicted_yield,
         health_score |-> crops_data[c].health_score,
         growth_stage |-> crops_data[c].growth_stage]]]

\* resolve_alert that takes the alert out of the list.
resolve_alert_removing(al, alert_id) ==
    IF \E k \in 1..Len(al) : al[k].id = alert_id
    THEN LET k == CHOOSE k \in 1..Len(al) :
                    /\ al[k].id = alert_id
                    /\ \A j \in 1..(k - 1) : al[j].id # alert_id
         IN  <<SubSeq(al, 1, k - 1) \o SubSeq(al, k + 1, Len(al)), TRUE>>
    ELSE <<al, FALSE>>

\* resolve_alert: the alert list after the call and the value returned.
resolve_alert(al, alert_id) ==
    IF \E k \in 1..Len(al) : al[k].id = alert_id
    THEN LET k == CHOOSE k \in 1..Len(al) :
                    /\ al[k].id = alert_id
                    /\ \A j \in 1..(k - 1) : al[j].id # alert_id
         IN  <<[al EXCEPT ![k].resolved = TRUE], TRUE>>
    ELSE <<al, FALSE>>

-----------------------------------------------------------------------------
(* CropYieldPredictor *)

\* __init__: model_weights, in thousandths.
InitialModelWeights ==
    [key \in {"soil_moisture", "soil_pH", "temperature", "rainfall", "humidity",
              "sunlight_hours", "NDVI_index"} |->
        CASE key = "soil_moisture" -> 350
          [] key = "soil_pH" -> 200
          [] key = "temperature" -> 250
          [] key = "rainfall" -> 100
          [] key = "humidity" -> 50
          [] key = "sunlight_hours" -> 30
          [] key = "NDVI_index" -> 20]

\* __init__: crop_coefficients; base_yield in kg, the two factors in tenths.
\* The last line is the default of crop_coefficients.get in predict_yield.
crop_coefficients(crop_type) ==
    CASE crop_type = "Wheat"   -> [base_yield |-> 4000, temp_sensitivity |-> 10, water_need |-> 11]
      [] crop_type = "Soybean" -> [base_yield |-> 4500, temp_sensitivity |-> 12, water_need |-> 10]
      [] crop_type = "Maize"   -> [base_yield |-> 5000, temp_sensitivity |-> 13, water_need |-> 12]
      [] crop_type = "Cotton"  -> [base_yield |-> 3500, temp_sensitivity |-> 11, water_need |-> 13]
      [] crop_type = "Rice"    -> [base_yield |-> 4500, temp_sensitivity |-> 12, water_need |-> 14]
      [] OTHER                 -> [base_yield |-> 4000, temp_sensitivity |-> 10, water_need |-> 10]

\* __init__: numerical_features, each as the words between its underscores.
numerical_features == <<
    <<"soil", "moisture", "%">>, <<"soil", "pH">>, <<"temperature", "C">>,
    <<"rainfall", "mm">>, <<"humidity", "%">>, <<"sunlight", "hours">>, <<"NDVI", "index">> >>

\* The keys of model_weights as the words between their underscores.
KeyWords(key) ==
    CASE key = "soil_moisture" -> <<"soil", "moisture">>
      [] key = "soil_pH" -> <<"soil", "pH">>
      [] key = "temperature" -> <<"temperature">>
      [] key = "rainfall" -> <<"rainfall">>
      [] key = "humidity" -> <<"humidity">>
      [] key = "sunlight_hours" -> <<"sunlight", "hours">>
      [] key = "NDVI_index" -> <<"NDVI", "index">>

\* The scale of a normalized sensor value: 10000 is 1.0.
NormOne == 10000
\* The scale of the temperature and water factors: 1000 is 1.0.
FactorOne == 1000

\* normalize_sensor_value with the quotient above the range inverted.
normalize_sensor_value_inverted(value, optimal_range) ==
    LET min_optimal == optimal_range[1]
        max_optimal == optimal_range[2]
    IN  IF min_optimal <= value /\ value <= max_optimal THEN NormOne
        ELSE IF value < min_optimal THEN Max(0, (value * NormOne) \div min_optimal)
        ELSE Max(0, (value * NormOne) \div max_optimal)

\* normalize_sensor_value, at scale NormOne.
normalize_sensor_value(value, optimal_range) ==
    LET min_optimal == optimal_range[1]
        max_optimal == optimal_range[2]
    IN  IF min_optimal <= value /\ value <= max_optimal THEN NormOne
        ELSE IF value < min_optimal THEN Max(0, (value * NormOne) \div min_optimal)
        ELSE Max(0, (max_optimal * NormOne) \div value)

\* calculate_temperature_factor, at scale FactorOne; sensitivity in tenths.
\* optimal_temp is (min + max) / 2, so temp_deviation is |2 temp - s| / s
\* with s = min + max.
calculate_temperature_factor(temp, optimal_range, sensitivity) ==
    LET s == optimal_range[1] + optimal_range[2]
        temp_factor == (FactorOne * s - Abs(2 * temp - s) * sensitivity * 50) \div s
    IN  Max(100, temp_factor)

\* calculate_water_factor, at scale FactorOne; water_need in tenths.
calculate_water_factor(moisture, optimal_range, water_need) ==
    LET min_moisture == optimal_range[1]
        max_moisture == optimal_range[2]
        water_factor ==
            IF moisture < min_moisture
            THEN (moisture * water_need * 100) \div min_moisture
            ELSE IF moisture > max_moisture
            THEN (FactorOne * max_moisture - (moisture - max_moisture) * 300) \div max_moisture
            ELSE FactorOne
    IN  Max(100, water_factor)

\* get_growth_stage_factor, in tenths.
get_growth_stage_factor(growth_stage) ==
    CASE growth_stage = "Seedling" -> 3
      [] growth_stage = "Vegetative" -> 6
      [] growth_stage = "Flowering" -> 9
      [] growth_stage \in {"Fruiting", "Maturation", "Harvest"} -> 10
      [] OTHER -> 8

\* predict_yield, trained mode: sensor_dict.get(id, default) for the seven
\* numeric inputs of the model, in hundredths.
SensorDictGet(ss, id, default) ==
    IF FindSensor(id) # 0 THEN ss[FindSensor(id)].value ELSE default

input_data(crop, ss) ==
    [soil_moisture |-> SensorDictGet(ss, "soil_moisture", 3000),
     soil_pH |-> SensorDictGet(ss, "soil_pH", 650),
     temperature_C |-> SensorDictGet(ss, "temperature", 2500),
     rainfall_mm |-> SensorDictGet(ss, "rainfall", 15000),
     humidity |-> SensorDictGet(ss, "humidity", 6000),
     sunlight_hours |-> SensorDictGet(ss, "sunlight_hours", 600),
     NDVI_index |-> SensorDictGet(ss, "NDVI_index", 50),
     crop_type |-> crop.crop_type,
     crop_disease_status |-> crop.health_status]

\* predict_yield_trained without the floor at 0.
predict_yield_trained_unfloored(crop, ss, model_out) ==
    LET crop_coeff == crop_coefficients(crop.crop_type)
        stage_factor == get_growth_stage_factor(crop.growth_stage)
        predicted_yield == model_out * crop.health_score * stage_factor
                           * (crop_coeff.base_yield \div 500)
    IN  RoundDiv(predicted_yield, 80)

\* predict_yield, trained mode.  model_out is what self.model.predict returns
\* for input_data, in kg; the yield is in hundredths of a kg.
\* base_yield / 4000 is (base_yield / 500) / 8.
predict_yield_trained(crop, ss, model_out) ==
    LET crop_coeff == crop_coefficients(crop.crop_type)
        stage_factor == get_growth_stage_factor(crop.growth_stage)
        predicted_yield == model_out * crop.health_score * stage_factor
                           * (crop_coeff.base_yield \div 500)
    IN  RoundDiv(Max(0, predicted_yield), 80)

\* predict_yield, heuristic mode: the loop over model_weights.
environmental_score(ss, weights) ==
    LET Term(key) ==
            IF FindSensor(key) # 0
            THEN normalize_sensor_value(ss[FindSensor(key)].value,
                                        sensor_configs[FindSensor(key)].optimal_range)
                 * weights[key]
            ELSE 0
    IN  (Term("soil_moisture") + Term("soil_pH") + Term("temperature") + Term("rainfall")
         + Term("humidity") + Term("sunlight_hours") + Term("NDVI_index")) \div 1000

\* predict_yield, heuristic mode.  variation is the draw
\* random.uniform(0.9, 1.1) in hundredths.
predict_yield_heuristic(crop, ss, weights, variation) ==
    LET crop_coeff == crop_coefficients(crop.crop_type)
        t == FindSensor("temperature")
        m == FindSensor("soil_moisture")
        score0 == environmental_score(ss, weights)
        score1 == IF t # 0
                  THEN (score0 * calculate_temperature_factor(ss[t].value,
                            sensor_configs[t].optimal_range, crop_coeff.temp_sensitivity))
                       \div FactorOne
                  ELSE score0
        score2 == IF m # 0
                  THEN (score1 * calculate_water_factor(ss[m].value,
                            sensor_configs[m].optimal_range, crop_coeff.water_need))
                       \div FactorOne
                  ELSE score1
        stage_factor == get_growth_stage_factor(crop.growth_stage)
        y1 == (crop_coeff.base_yield * score2) \div 100
        y2 == (y1 * crop.health_score) \div 100
        y3 == (y2 * stage_factor) \div 10
    IN  RoundDiv(Max(0, y3 * variation), 100)

predict_yield(crop, ss, trained, weights, model_out, variation) ==
    IF trained THEN predict_yield_trained(crop, ss, model_out)
    ELSE predict_yield_heuristic(crop, ss, weights, variation)

\* predict_crop_yield of the core, the fallback branch: weights in tenths,
\* normalized scores at scale NormOne, 0.5 for a sensor that is missing.
fallback_normalized(ss, sensor_id) ==
    LET i == FindSensor(sensor_id)
        min_val == sensor_configs[i].optimal_range[1]
        max_val == sensor_configs[i].optimal_range[2]
        current_val == ss[i].value
    IN  IF i = 0 THEN NormOne \div 2
        ELSE IF min_val <= current_val /\ current_val <= max_val THEN NormOne
        ELSE Max(0, IF current_val < min_val
                    THEN (current_val * NormOne) \div min_val
                    ELSE (max_val * NormOne) \div current_val)

fallback_yield(crop, ss) ==
    LET sum == fallback_normalized(ss, "soil_moisture") * 4
               + fallback_normalized(ss, "soil_ph") * 2
               + fallback_normalized(ss, "temperature") * 3
               + fallback_normalized(ss, "sunlight_hours") * 1
        base_yield == CASE crop.crop_type = "Wheat" -> 4000
                        [] crop.crop_type = "Soybean" -> 4500
                        [] crop.crop_type = "Maize" -> 5000
                        [] OTHER -> 4000
    IN  RoundDiv(((base_yield * sum) \div 1000) * crop.health_score, 100)

\* predict_crop_yield of the core.
predict_crop_yield(crop, ss, pred, trained, weights, model_out, variation) ==
    IF pred # "None" /\ trained
    THEN predict_yield(crop, ss, trained, weights, model_out, variation)
    ELSE fallback_yield(crop, ss)

\* train_model.  run is the dataset and what the library does with it:
\* run.outcome is "unreadable" (pd.read_csv raises), "missing_feature" or
\* "missing_target" (df.dropna raises KeyError), "fit_error" (self.model.fit
\* raises), "score_error" (self.model.score raises, after is_trained was
\* set) or "ok"; run.cat_features are the one-hot feature names and
\* run.importances the feature importances of the fitted model, in
\* thousandths, in the order of feature_names.
RECURSIVE update_weights(_, _, _, _)
update_weights(weights, feature_names, importances, n) ==
    IF n > Len(feature_names) \/ n > Len(importances) THEN weights
    ELSE update_weights(
            [key \in DOMAIN weights |->
                IF Contains(feature_names[n], KeyWords(key))
                THEN importances[n] ELSE weights[key]],
            feature_names, importances, n + 1)

\* train_model that sets is_trained before it reads the dataset.
train_model_flag_first(trained, weights, run) ==
    IF run.outcome = "ok"
    THEN <<TRUE, update_weights(weights, numerical_features \o run.cat_features,
                                run.importances, 1)>>
    ELSE <<TRUE, weights>>

train_model(trained, weights, run) ==
    IF run.outcome = "ok"
    THEN <<TRUE, update_weights(weights, numerical_features \o run.cat_features,
                                run.importances, 1)>>
    ELSE IF run.outcome = "score_error" THEN <<TRUE, weights>>
    ELSE <<trained, weights>>

-----------------------------------------------------------------------------
(* IoTSensorSimulator *)

\* floor(a * b / c) for c > 0, computed without leaving 32 bits.
MulDiv(a, b, c) == (a \div c) * b + ((a % c) * b) \div c

\* __init__: sensors_config; range, optimal and drift_rate in thousandths.
SimIds == {"soil_moisture", "soil_temperature", "air_humidity", "soil_ph",
           "light_intensity", "nitrogen_level"}

sensors_config(id) ==
    CASE id = "soil_moisture"    -> [range |-> <<0, 100000>>,     optimal |-> <<40000, 70000>>,       drift_rate |-> 100]
      [] id = "soil_temperature" -> [range |-> <<5000, 40000>>,   optimal |-> <<18000, 25000>>,       drift_rate |-> 50]
      [] id = "air_humidity"     -> [range |-> <<20000, 100000>>, optimal |-> <<50000, 80000>>,       drift_rate |-> 80]
      [] id = "soil_ph"          -> [range |-> <<4000, 9000>>,    optimal |-> <<6000, 7500>>,         drift_rate |-> 20]
      [] id = "light_intensity"  -> [range |-> <<0, 100000000>>,  optimal |-> <<10000000, 50000000>>, drift_rate |-> 150]
      [] id = "nitrogen_level"   -> [range |-> <<0, 100000>>,     optimal |-> <<20000, 50000>>,       drift_rate |-> 30]

\* simulate_environmental_factors: weather_factors, in tenths.
weather_factors(weather) ==
    CASE weather = "sunny"  -> [temp |-> 12, humidity |-> 8,  light |-> 13]
      [] weather = "cloudy" -> [temp |-> 9,  humidity |-> 11, light |-> 6]
      [] weather = "rainy"  -> [temp |-> 8,  humidity |-> 14, light |-> 4]
      [] weather = "windy"  -> [temp |-> 9,  humidity |-> 9,  light |-> 10]

\* read_sensor: the value before the clamp.  h is datetime.now().hour,
\* drift_draw and noise_draw are the draws random.uniform(-1, 1) that scale
\* drift_rate and noise_level.  With a = |12 - h|: temperature_factor is
\* (40 + a) / 40, humidity_factor (60 + a) / 60 and light_factor
\* max(12, 120 - 10 a) / 120.
unclamped_reading(state, id, h, weather, drift_draw, noise_draw) ==
    LET a == Abs(12 - h)
        wf == weather_factors(weather)
        cv0 == state.current_value
        cv1 == CASE id = "soil_temperature" ->
                      MulDiv(MulDiv(cv0, 40 + a, 40), wf.temp, 10)
                 [] id = "air_humidity" ->
                      MulDiv(MulDiv(cv0, 60 + a, 60), wf.humidity, 10)
                 [] id = "light_intensity" ->
                      MulDiv(MulDiv(cv0, Max(12, 120 - 10 * a), 120), wf.light, 10)
                 [] id = "soil_moisture" /\ weather = "rainy" ->
                      MulDiv(cv0, 13, 10)
                 [] OTHER -> cv0
        drift == sensors_config(id).drift_rate * drift_draw * state.drift_direction
        cv2 == cv1 + drift
        noise == MulDiv(cv2, state.noise_level * noise_draw, 1000)
    IN  cv2 + noise

\* clamp that forgets the upper end of the range.
clamp_lower_only(value, range) == Max(range[1], value)

\* read_sensor: "Ensure value stays within sensor range".
clamp(value, range) == Max(range[1], Min(range[2], value))

\* read_sensor from line 104 on, for a configured id: the sensor's state
\* after the call and the value returned (hundredths; the state holds
\* thousandths).
read_configured_sensor(state, id, h, weather, drift_draw, noise_draw, flip, t) ==
    LET current_value == clamp(unclamped_reading(state, id, h, weather, drift_draw, noise_draw),
                               sensors_config(id).range)
    IN  <<[current_value |-> current_value,
           last_reading |-> t,
           drift_direction |-> IF flip THEN -state.drift_direction ELSE state.drift_direction,
           noise_level |-> state.noise_level],
          RoundDiv(current_value, 10)>>

\* read_sensor that reads the soil moisture sensor when the id is unknown.
read_sensor_default_id(states, id, h, weather, drift_draw, noise_draw, flip, t) ==
    LET known == IF id \in SimIds THEN id ELSE "soil_moisture"
        r == read_configured_sensor(states[known], known, h, weather, drift_draw, noise_draw, flip, t)
    IN  [states |-> [states EXCEPT ![known] = r[1]], ret |-> <<r[2]>>, raised |-> ""]

\* read_sensor: sensor_states after the call and what the call returned or raised.
read_sensor(states, id, h, weather, drift_draw, noise_draw, flip, t) ==
    IF id \notin SimIds
    THEN [states |-> states, ret |-> <<>>, raised |-> "ValueError: Unknown sensor: " \o id]
    ELSE LET r == read_configured_sensor(states[id], id, h, weather, drift_draw, noise_draw, flip, t)
         IN  [states |-> [states EXCEPT ![id] = r[1]], ret |-> <<r[2]>>, raised |-> ""]

-----------------------------------------------------------------------------
(* The calls.  call records the last call: its name, its arguments and    *)
(* the draws it made, what it returned or raised, how many calls were made *)
(* so far, and where a blocking call stands.                               *)

Called(op, arg, ret, raised) ==
    [op |-> op, arg |-> arg, ret |-> ret, raised |-> raised, n |-> call.n + 1, pc |-> "idle"]

Idle == call.pc = "idle"

\* SmartAgricultureSystem.__init__ and CropYieldPredictor.__init__
InitCore ==
    /\ sensors = [i \in SensorIdx |-> [value |-> 0, status |-> "optimal", last_updated |-> 0]]
    /\ crops = [c \in CropIdx |-> [predicted_yield |-> 0]]
    /\ alerts = <<>>
    /\ learning_data = <<>>
    /\ irrigation_schedule = EmptyDict
    /\ is_trained = FALSE
    /\ model_weights = InitialModelWeights
    /\ clock = 0
    /\ call = [op |-> "__init__", arg |-> <<>>, ret |-> <<>>, raised |-> "", n |-> 0, pc |-> "idle"]

\* IoTSensorSimulator.initialize_sensors.  The three draws are made once for
\* all sensors: value_high is whether random.uniform(optimal_min, optimal_max)
\* gives the upper or the lower end, direction is random.choice([-1, 1]),
\* noise_level is random.uniform(0.01, 0.05) in thousandths.
initialize_sensors(value_high, direction, noise_level) ==
    [id \in SimIds |->
        [current_value |-> sensors_config(id).optimal[IF value_high THEN 2 ELSE 1],
         last_reading |-> 0,
         drift_direction |-> direction,
         noise_level |-> noise_level]]

\* update_system: one whole cycle.  d[i] is the pair of draws of
\* generate_sensor_reading for sensor i, model_out the output of the trained
\* model.  The rows update_system appends to streamlit's session state are
\* display data and are left out.
UpdateSystem(d, model_out) ==
    LET ss == [i \in SensorIdx |->
                LET value == generate_sensor_reading(sensor_configs[i].optimal_range, d[i][1], d[i][2])
                IN  [value |-> value,
                     status |-> update_sensor_status(value, sensor_configs[i].optimal_range),
                     last_updated |-> clock]]
        current_readings == [i \in SensorIdx |-> ss[i].value]
        learned == learn_from_data(learning_data, current_readings, ss, alerts, clock)
        cr == [c \in CropIdx |->
                [predicted_yield |-> predict_crop_yield(crops_data[c], ss, predictor, is_trained,
                                                        model_weights, model_out, 100)]]
        al2 == check_for_alerts(ss, learned[2], clock)
        irrigated == auto_irrigate(ss, al2, irrigation_schedule, clock)
    IN  /\ Idle
        /\ sensors' = ss
        /\ learning_data' = learned[1]
        /\ crops' = cr
        /\ alerts' = irrigated[1]
        /\ irrigation_schedule' = irrigated[2]
        /\ call' = Called("update_system", <<model_out>>, <<>>, "")
        /\ UNCHANGED <<predictor, is_trained, model_weights, sensor_states, clock>>

\* learn_from_data called on its own with the vector sensor_data.
LearnFromData(sensor_data) ==
    LET learned == learn_from_data(learning_data, sensor_data, sensors, alerts, clock)
    IN  /\ Idle
        /\ learning_data' = learned[1]
        /\ alerts' = learned[2]
        /\ call' = Called("learn_from_data", <<sensor_data>>, <<>>, "")
        /\ UNCHANGED <<sensors, crops, irrigation_schedule, predictor,
                       is_trained, model_weights, sensor_states, clock>>

\* A caller sets sensor i to the value v and calls update_sensor_status on it.
UpdateSensorStatus(i, v) ==
    /\ Idle
    /\ sensors' = [sensors EXCEPT ![i].value = v,
                                  ![i].status = update_sensor_status(v, sensor_configs[i].optimal_range)]
    /\ call' = Called("update_sensor_status", <<i, v>>, <<>>, "")
    /\ UNCHANGED <<crops, alerts, learning_data, irrigation_schedule, predictor,
                   is_trained, model_weights, sensor_states, clock>>

CheckForAlerts ==
    /\ Idle
    /\ alerts' = check_for_alerts(sensors, alerts, clock)
    /\ call' = Called("check_for_alerts", <<>>, <<>>, "")
    /\ UNCHANGED <<sensors, crops, learning_data, irrigation_schedule, predictor,
                   is_trained, model_weights, sensor_states, clock>>

AutoIrrigate ==
    /\ Idle
    /\ alerts' = auto_irrigate(sensors, alerts, irrigation_schedule, clock)[1]
    /\ irrigation_schedule' = auto_irrigate(sensors, alerts, irrigation_schedule, clock)[2]
    /\ call' = Called("auto_irrigate", <<>>, <<>>, "")
    /\ UNCHANGED <<sensors, crops, learning_data, predictor,
                   is_trained, model_weights, sensor_states, clock>>

CreatePredictiveAlert(i, trend) ==
    /\ Idle
    /\ alerts' = create_predictive_alert(alerts, i, trend, clock)
    /\ call' = Called("create_predictive_alert", <<i, trend>>, <<>>, "")
    /\ UNCHANGED <<sensors, crops, learning_data, irrigation_schedule, predictor,
                   is_trained, model_weights, sensor_states, clock>>

ResolveAlert(alert_id) ==
    /\ Idle
    /\ alerts' = resolve_alert(alerts, alert_id)[1]
    /\ call' = Called("resolve_alert", <<alert_id>>, <<resolve_alert(alerts, alert_id)[2]>>, "")
    /\ UNCHANGED <<sensors, crops, learning_data, irrigation_schedule, predictor,
                   is_trained, model_weights, sensor_states, clock>>

\* get_sensor_data, get_crop_data: list.copy() makes a new list of the same
\* objects.  The list returned holds references: the index of each sensor
\* (crop) in sensors (crops), which hold the objects' fields.
GetSensorData ==
    /\ Idle
    /\ call' = Called("get_sensor_data", <<>>, <<[i \in SensorIdx |-> i]>>, "")
    /\ UNCHANGED <<coreVars, predictorVars, sensor_states, clock>>

GetCropData ==
    /\ Idle
    /\ call' = Called("get_crop_data", <<>>, <<[c \in CropIdx |-> c]>>, "")
    /\ UNCHANGED <<coreVars, predictorVars, sensor_states, clock>>

\* get_alerts: a new list of the unresolved alert objects, as references
\* into alerts.
GetAlerts ==
    /\ Idle
    /\ call' = Called("get_alerts", <<>>,
                      <<SelectSeq([k \in 1..Len(alerts) |-> k], LAMBDA k : ~alerts[k].resolved)>>, "")
    /\ UNCHANGED <<coreVars, predictorVars, sensor_states, clock>>

\* What a holder of the list of references refs sees in the objects.
SeenThrough(refs, objects) == [k \in 1..Len(refs) |-> objects[refs[k]]]

\* The wall clock moves on between two calls, or while a call sleeps.
Tick ==
    /\ clock < MaxClock
    /\ clock' = clock + 1
    /\ UNCHANGED <<sensors, crops, alerts, learning_data, irrigation_schedule, predictor,
                   is_trained, model_weights, sensor_states, call>>

-----------------------------------------------------------------------------
(* The system core under the calls of its driver and of its tests *)

\* Draws of generate_sensor_reading, the same pair for every sensor.
RandomFactors == {-10, 9}
TimeFactors == {90, 110}
Draws == {[i \in SensorIdx |-> <<rf, tf>>] : rf \in RandomFactors, tf \in TimeFactors}

\* Sensors whose value a test forces, and the values: below 0.8 min, between
\* 0.8 min and 0.9 min, inside the range and below 30, and 1.3 max.
ForcedSensors == {1, 2}
ForcedValues(i) ==
    LET r == sensor_configs[i].optimal_range
    IN  {(r[1] * 7) \div 10, (r[1] * 85) \div 100, (r[1] * 5) \div 4, (r[2] * 13) \div 10}

AlertIds == {alerts[k].id : k \in 1..Len(alerts)} \cup {"no_such_alert"}

Init ==
    /\ InitCore
    /\ predictor = "None"
    /\ sensor_states = initialize_sensors(FALSE, 1, 10)

Next ==
    \/ \E d \in Draws : call.n < MaxCalls /\ UpdateSystem(d, 0)
    \/ \E i \in ForcedSensors : \E v \in ForcedValues(i) :
            call.n < MaxCalls /\ UpdateSensorStatus(i, v)
    \/ call.n < MaxCalls /\ CheckForAlerts
    \/ call.n < MaxCalls /\ AutoIrrigate
    \/ \E i \in ForcedSensors : \E trend \in {"increasing", "decreasing"} :
            call.n < MaxCalls /\ CreatePredictiveAlert(i, trend)
    \/ \E alert_id \in AlertIds : call.n < MaxCalls /\ ResolveAlert(alert_id)
    \/ Tick

Spec == Init /\ [][Next]_vars

-----------------------------------------------------------------------------
(* Alerts of the core *)

\* The ids check_for_alerts gives to the error alerts of sensor i.
CriticalIds(i) == {"critical_" \o sensor_configs[i].id \o "_" \o ToString(t) : t \in 0..MaxClock}

UnresolvedErrorAlerts(i) ==
    {k \in 1..Len(alerts) :
        alerts[k].type = "error" /\ ~alerts[k].resolved /\ alerts[k].id \in CriticalIds(i)}

\* C2: in every state there is at most one unresolved error alert per
\* sensor, and after a run of check_for_alerts (alone or inside a cycle) a
\* sensor that is critical has exactly one; a second check_for_alerts that
\* directly follows a first one adds nothing.
C2_ErrorAlertDeduplicated ==
    /\ [](\A i \in SensorIdx :
            /\ Cardinality(UnresolvedErrorAlerts(i)) <= 1
            /\ (call.op \in {"check_for_alerts", "update_system"} /\ sensors[i].status = "critical")
                    => Cardinality(UnresolvedErrorAlerts(i)) = 1)
    /\ [][(call.op = "check_for_alerts" /\ call'.op = "check_for_alerts" /\ call'.n = call.n + 1)
            => alerts' = alerts]_vars

\* A check_for_alerts at second 1 found sensor 1 critical and its error alert
\* of second 0 unresolved, and added nothing.
C2_Witness ==
    /\ call.op = "check_for_alerts"
    /\ clock = 1
    /\ sensors[1].status = "critical"
    /\ Cardinality(UnresolvedErrorAlerts(1)) = 1
    /\ \A k \in 1..Len(alerts) : alerts[k].timestamp = 0

\* C3: no two alerts of the alert list have the same id.
C3_AlertIdsUnique ==
    \A j, k \in 1..Len(alerts) : j # k => alerts[j].id # alerts[k].id

\* C4: auto_irrigate with soil moisture below 30 sets the irrigation flag of
\* field_1 and appends exactly one info alert whose message shows the value;
\* with 30 or more it changes neither the flag nor the alert list.
C4_AutoIrrigate ==
    [][(call'.op = "auto_irrigate" /\ call'.n = call.n + 1) =>
        LET value == sensors[FindSensor("soil_moisture")].value
        IN  IF value < 3000
            THEN /\ DictGet(irrigation_schedule', "field_1", FALSE) = TRUE
                 /\ Len(alerts') = Len(alerts) + 1
                 /\ SubSeq(alerts', 1, Len(alerts)) = alerts
                 /\ alerts'[Len(alerts')].type = "info"
                 /\ ~alerts'[Len(alerts')].resolved
                 /\ Contains(alerts'[Len(alerts')].message, <<FormatFloat(value)>>)
            ELSE /\ irrigation_schedule' = irrigation_schedule
                 /\ alerts' = alerts]_vars

\* auto_irrigate ran twice on soil moisture 25.0: the flag is set and each
\* run appended its own alert showing "25.0".
C4_Witness ==
    /\ call.op = "auto_irrigate"
    /\ sensors[1].value = 2500
    /\ DictGet(irrigation_schedule, "field_1", FALSE)
    /\ Len(alerts) = 2
    /\ \A k \in 1..2 : alerts[k].type = "info" /\ Contains(alerts[k].message, <<"25.0">>)

\* C9: get_system_status is Critical exactly when some sensor is critical,
\* Warning exactly when none is critical and some is warning, Optimal exactly
\* when all are optimal; the report carries the same status and the number
\* of unresolved alerts.
C9_SystemStatus ==
    LET status == get_system_status(sensors)
        report == generate_report(sensors, crops, alerts, clock)
        some_critical == \E i \in SensorIdx : sensors[i].status = "critical"
        some_warning == \E i \in SensorIdx : sensors[i].status = "warning"
    IN  /\ status = "Critical" <=> some_critical
        /\ status = "Warning" <=> (~some_critical /\ some_warning)
        /\ status = "Optimal" <=> \A i \in SensorIdx : sensors[i].status = "optimal"
        /\ report.system_status = status
        /\ report.active_alerts = Cardinality({k \in 1..Len(alerts) : ~alerts[k].resolved})

\* One sensor is critical and another warning, and check_for_alerts has
\* raised the one alert there is: the status is Critical and the report
\* counts one active alert.
C9_Witness ==
    /\ \E i, j \in SensorIdx : sensors[i].status = "critical" /\ sensors[j].status = "warning"
    /\ Len(alerts) = 1 /\ ~alerts[1].resolved
    /\ get_system_status(sensors) = "Critical"
    /\ generate_report(sensors, crops, alerts, clock).system_status = "Critical"
    /\ generate_report(sensors, crops, alerts, clock).active_alerts = 1

\* C12: no step deletes or reorders an alert: the alert list keeps every
\* alert at its position with its id, type and message and only grows at
\* its end, and an alert that is resolved stays resolved.
C12_AlertsNeverDeleted ==
    [][/\ Len(alerts') >= Len(alerts)
       /\ \A k \in 1..Len(alerts) :
            /\ alerts'[k].id = alerts[k].id
            /\ alerts'[k].type = alerts[k].type
            /\ alerts'[k].message = alerts[k].message
            /\ alerts[k].resolved => alerts'[k].resolved]_vars

\* An alert was resolved and a later auto_irrigate appended a second alert
\* behind it: the first is still there, resolved.
C12_Witness ==
    /\ call.op = "auto_irrigate"
    /\ Len(alerts) = 2
    /\ alerts[1].resolved
    /\ ~alerts[2].resolved

\* The ids create_predictive_alert gives to the alerts of sensor i.
PredictiveIds(i) == {"predictive_" \o sensor_configs[i].id \o "_" \o ToString(t) : t \in 0..MaxClock}

UnresolvedPredictiveAlerts(i) ==
    {k \in 1..Len(alerts) : ~alerts[k].resolved /\ alerts[k].id \in PredictiveIds(i)}

\* C13: in every state a sensor has at most one unresolved predictive
\* alert; create_predictive_alert for a sensor that has one appends nothing,
\* whatever the trend, and for a sensor that has none it appends one alert of
\* that sensor, whatever alerts the other sensors have.
C13_PredictiveAlertDeduplicated ==
    /\ [](\A i \in SensorIdx : Cardinality(UnresolvedPredictiveAlerts(i)) <= 1)
    /\ [][(call'.op = "create_predictive_alert" /\ call'.n = call.n + 1) =>
            LET i == call'.arg[1]
            IN  IF UnresolvedPredictiveAlerts(i) # {}
                THEN alerts' = alerts
                ELSE /\ Len(alerts') = Len(alerts) + 1
                     /\ SubSeq(alerts', 1, Len(alerts)) = alerts
                     /\ alerts'[Len(alerts')].id \in PredictiveIds(i)
                     /\ ~alerts'[Len(alerts')].resolved
                     /\ Contains(alerts'[Len(alerts')].message, <<call'.arg[2], "trend">>)]_vars

\* While the soil moisture sensor has an unresolved predictive alert, the
\* third call, a create_predictive_alert for the soil pH sensor, appended
\* the alert of that sensor.
C13_Witness ==
    /\ call.op = "create_predictive_alert"
    /\ call.n = 3
    /\ call.arg[1] = 2
    /\ Len(alerts) = 2
    /\ UnresolvedPredictiveAlerts(1) = {1}
    /\ UnresolvedPredictiveAlerts(2) = {2}

\* The ids auto_irrigate gives to its alerts.
IrrigationIds == {"irrigation_" \o ToString(t) : t \in 0..MaxClock}

UnresolvedIrrigationAlerts ==
    {k \in 1..Len(alerts) : ~alerts[k].resolved /\ alerts[k].id \in IrrigationIds}

\* C14: every kind of alert is deduplicated: in every state there is at
\* most one unresolved error alert and at most one unresolved predictive
\* alert per sensor, and at most one unresolved irrigation alert.
C14_EveryAlertDeduplicated ==
    /\ \A i \in SensorIdx : Cardinality(UnresolvedErrorAlerts(i)) <= 1
    /\ \A i \in SensorIdx : Cardinality(UnresolvedPredictiveAlerts(i)) <= 1
    /\ Cardinality(UnresolvedIrrigationAlerts) <= 1

\* C23: resolve_alert returns True exactly when an alert has the id; then
\* no alert with the id is left unresolved (get_alerts shows none); else
\* it returns False and the alerts are as they were.
C23_ResolveById ==
    [][(call'.op = "resolve_alert" /\ call'.n = call.n + 1) =>
        LET alert_id == call'.arg[1]
            exists == \E k \in 1..Len(alerts) : alerts[k].id = alert_id
        IN  /\ call'.ret[1] = exists
            /\ exists => \A k \in 1..Len(get_alerts(alerts')) :
                            get_alerts(alerts')[k].id # alert_id
            /\ ~exists => alerts' = alerts]_vars

-----------------------------------------------------------------------------
(* The status classification on its own *)

\* Values a test gives a sensor: 70, 80, 85, 90 and 100 percent of the lower
\* end of its optimal range and 110, 115, 120 and 130 percent of the upper.
TestValues(i) ==
    LET r == sensor_configs[i].optimal_range
    IN  {(r[1] * p) \div 100 : p \in {70, 80, 85, 90, 100}}
        \cup {(r[2] * p) \div 100 : p \in {110, 115, 120, 130}}

NextStatus ==
    \/ \E i \in SensorIdx : \E v \in TestValues(i) :
            call.n < MaxStatusCalls /\ UpdateSensorStatus(i, v)
    \/ \E d \in Draws : call.n < MaxStatusCalls /\ UpdateSystem(d, 0)

SpecStatus == Init /\ [][NextStatus]_vars

\* The classification as the claim words it, thresholds at 80, 90, 110 and
\* 120 percent of the bounds.
ClaimedStatus(value, min, max) ==
    IF 100 * value < 80 * min \/ 100 * value > 120 * max THEN "critical"
    ELSE IF 100 * value < 90 * min \/ 100 * value > 110 * max THEN "warning"
    ELSE "optimal"

\* C8: the status update_sensor_status gives a sensor depends on its value
\* and its optimal range alone: critical below 0.8 min or above 1.2 max,
\* else warning below 0.9 min or above 1.1 max, else optimal.
C8_StatusFromThresholds ==
    /\ call.op = "update_sensor_status" =>
         LET i == call.arg[1]
             r == sensor_configs[i].optimal_range
         IN  /\ sensors[i].value = call.arg[2]
             /\ sensors[i].status = ClaimedStatus(call.arg[2], r[1], r[2])
    /\ call.op = "update_system" =>
         \A i \in SensorIdx :
            sensors[i].status = ClaimedStatus(sensors[i].value,
                                              sensor_configs[i].optimal_range[1],
                                              sensor_configs[i].optimal_range[2])

\* A sensor that was classified before is given 1.3 max and becomes critical.
C8_Witness ==
    /\ call.op = "update_sensor_status"
    /\ call.n = 2
    /\ call.arg[2] * 10 = sensor_configs[call.arg[1]].optimal_range[2] * 13
    /\ sensors[call.arg[1]].status = "critical"

\* C18: in every state, from construction on, the status of each sensor is
\* the classification of its current value against its optimal range.
C18_StatusMatchesValue ==
    \A i \in SensorIdx :
        sensors[i].status = ClaimedStatus(sensors[i].value,
                                          sensor_configs[i].optimal_range[1],
                                          sensor_configs[i].optimal_range[2])

-----------------------------------------------------------------------------
(* The sensor simulator under the calls of its users *)

ReadSensor(id, h, weather, drift_draw, noise_draw, flip) ==
    LET r == read_sensor(sensor_states, id, h, weather, drift_draw, noise_draw, flip, clock)
    IN  /\ Idle
        /\ sensor_states' = r.states
        /\ call' = Called("read_sensor", <<id>>, r.ret, r.raised)
        /\ UNCHANGED <<coreVars, predictorVars, clock>>

\* simulate_sensor_failure up to time.sleep: the sensor is set to an end of
\* its range, high being the draw of random.choice.  An id without a state
\* is ignored.
SimulateSensorFailure(id, high) ==
    /\ Idle
    /\ IF id \in DOMAIN sensor_states
       THEN /\ sensor_states' = [sensor_states EXCEPT
                    ![id].current_value = sensors_config(id).range[IF high THEN 2 ELSE 1]]
            /\ call' = [Called("simulate_sensor_failure", <<id>>, <<>>, "") EXCEPT !.pc = "sleeping"]
       ELSE /\ sensor_states' = sensor_states
            /\ call' = Called("simulate_sensor_failure", <<id>>, <<>>, "")
    /\ UNCHANGED <<coreVars, predictorVars, clock>>

\* simulate_sensor_failure after time.sleep: the sensor is set back into its
\* optimal range, high being the end random.uniform draws.
SimulateSensorFailureRecover(high) ==
    /\ call.pc = "sleeping"
    /\ sensor_states' = [sensor_states EXCEPT
            ![call.arg[1]].current_value = sensors_config(call.arg[1]).optimal[IF high THEN 2 ELSE 1]]
    /\ call' = [call EXCEPT !.pc = "idle"]
    /\ UNCHANGED <<coreVars, predictorVars, clock>>

\* The ids the users pass; the hours (midnight, noon) and the weather of a
\* reading; the draws of a reading: drift and noise both at their upper or
\* both at their lower end, the drift direction kept or flipped.
UsedIds == SimIds \cup {"soil_ph_2"}
Hours == {0, 12}
Weather == {"sunny", "rainy"}
ReadDraws == {[drift |-> 1, noise |-> 1, flip |-> FALSE],
              [drift |-> -1, noise |-> -1, flip |-> TRUE]}

\* The draws of initialize_sensors: the value at the lower end of the optimal
\* range with an upward drift and the least noise, or at the upper end with
\* a downward drift and the most noise.
InitDraws == {[value_high |-> FALSE, direction |-> 1, noise_level |-> 10],
              [value_high |-> TRUE, direction |-> -1, noise_level |-> 50]}

InitSim ==
    /\ InitCore
    /\ predictor = "None"
    /\ \E d \in InitDraws :
            sensor_states = initialize_sensors(d.value_high, d.direction, d.noise_level)

NextSim ==
    \/ \E id \in UsedIds : \E h \in Hours : \E weather \in Weather : \E r \in ReadDraws :
            call.n < MaxSimCalls /\ ReadSensor(id, h, weather, r.drift, r.noise, r.flip)
    \/ \E id \in UsedIds : \E high \in BOOLEAN :
            call.n < MaxSimCalls /\ SimulateSensorFailure(id, high)
    \/ \E high \in BOOLEAN : SimulateSensorFailureRecover(high)
    \/ Tick

SpecSim == InitSim /\ [][NextSim]_vars

\* C1: the stored value of every simulated sensor, and every value
\* read_sensor returns, lies within the hard range of the sensor.
C1_WithinHardRange ==
    /\ \A id \in SimIds :
        /\ sensors_config(id).range[1] <= sensor_states[id].current_value
        /\ sensor_states[id].current_value <= sensors_config(id).range[2]
    /\ (call.op = "read_sensor" /\ call.raised = "") =>
        /\ sensors_config(call.arg[1]).range[1] <= call.ret[1] * 10
        /\ call.ret[1] * 10 <= sensors_config(call.arg[1]).range[2]

\* A reading of the humidity sensor was cut down to the upper end of its range.
C1_Witness ==
    /\ call.op = "read_sensor"
    /\ call.arg[1] = "air_humidity"
    /\ call.ret[1] * 10 = sensors_config("air_humidity").range[2]
    /\ sensor_states["air_humidity"].current_value = sensors_config("air_humidity").range[2]

\* C7: read_sensor with an id that is not configured raises "Unknown sensor"
\* and leaves the state of every sensor as it was.
C7_UnknownSensorRejected ==
    [][(call'.n = call.n + 1 /\ call'.op = "read_sensor" /\ call'.arg[1] \notin SimIds) =>
        /\ call'.raised = "ValueError: Unknown sensor: " \o call'.arg[1]
        /\ call'.ret = <<>>
        /\ sensor_states' = sensor_states]_vars

\* After a reading that moved a sensor, a read of an unknown id was rejected.
C7_Witness ==
    /\ call.op = "read_sensor"
    /\ call.n = 2
    /\ call.arg[1] = "soil_ph_2"
    /\ call.raised = "ValueError: Unknown sensor: soil_ph_2"
    /\ \E id \in SimIds :
        sensor_states[id].current_value \notin {sensors_config(id).optimal[1], sensors_config(id).optimal[2]}

-----------------------------------------------------------------------------
(* The predictor, alone and under the core *)

\* streamlit_app.init_agriculture_system: system.predictor = CropYieldPredictor()
SetPredictor ==
    /\ Idle
    /\ predictor' = "set"
    /\ call' = Called("set_predictor", <<>>, <<>>, "")
    /\ UNCHANGED <<coreVars, is_trained, model_weights, sensor_states, clock>>

\* train_model: every exception is caught, so the call raises nothing.
TrainModel(run) ==
    /\ Idle
    /\ is_trained' = train_model(is_trained, model_weights, run)[1]
    /\ model_weights' = train_model(is_trained, model_weights, run)[2]
    /\ call' = Called("train_model", <<run.outcome>>, <<>>, "")
    /\ UNCHANGED <<coreVars, predictor, sensor_states, clock>>

\* predict_yield called on a crop and the sensors of the core.
PredictYield(crop, model_out, variation) ==
    /\ Idle
    /\ call' = Called("predict_yield",
                      <<crop, model_out, variation>>,
                      <<predict_yield(crop, sensors, is_trained, model_weights, model_out, variation),
                        IF is_trained THEN "trained" ELSE "heuristic">>,
                      "")
    /\ UNCHANGED <<coreVars, predictorVars, sensor_states, clock>>

\* The datasets train_model is given, and their fitted models.
TrainingRuns == {
    [outcome |-> "unreadable", cat_features |-> <<>>, importances |-> <<>>],
    [outcome |-> "missing_feature", cat_features |-> <<>>, importances |-> <<>>],
    [outcome |-> "missing_target", cat_features |-> <<>>, importances |-> <<>>],
    [outcome |-> "fit_error", cat_features |-> <<>>, importances |-> <<>>],
    [outcome |-> "score_error", cat_features |-> <<>>, importances |-> <<>>],
    [outcome |-> "ok",
     cat_features |-> << <<"crop", "type", "Soybean">>, <<"crop", "disease", "status", "Mild">> >>,
     importances |-> <<400, 100, 200, 100, 50, 50, 40, 30, 30>>],
    [outcome |-> "ok", cat_features |-> <<>>, importances |-> <<0, 0, 0, 0, 0, 0, 1000>>] }

\* The crops predict_yield is given: those of the core, a crop of the table
\* the core does not grow, and a crop and a stage the tables do not know.
PredCrops == {crops_data[c] : c \in CropIdx} \cup {
    [crop_type |-> "Rice", health_score |-> 100, growth_stage |-> "Seedling", health_status |-> "Severe"],
    [crop_type |-> "Barley", health_score |-> 0, growth_stage |-> "Dormant", health_status |-> "None"] }

\* Outputs of the fitted model in kg, and the draws random.uniform(0.9, 1.1)
\* of the heuristic mode in hundredths.
ModelOutputs == {-1000, 3500}
Variations == {90, 110}

\* The extremes a test forces a sensor to: -10.0, 0.0, 10000.0.
ExtremeValues == {-1000, 0, 1000000}

InitPred ==
    /\ InitCore
    /\ predictor \in {"None", "set"}
    /\ sensor_states = initialize_sensors(FALSE, 1, 10)

NextPred ==
    \/ call.n < MaxPredCalls /\ SetPredictor
    \/ \E run \in TrainingRuns : call.n < MaxPredCalls /\ TrainModel(run)
    \/ \E crop \in PredCrops : \E model_out \in ModelOutputs : \E variation \in Variations :
            call.n < MaxPredCalls /\ PredictYield(crop, model_out, variation)
    \/ \E i \in SensorIdx : \E v \in ExtremeValues :
            call.n < MaxPredCalls /\ UpdateSensorStatus(i, v)
    \/ \E d \in Draws : \E model_out \in ModelOutputs :
            call.n < MaxPredCalls /\ UpdateSystem(d, model_out)

SpecPred == InitPred /\ [][NextPred]_vars

FailedLoads == {"unreadable", "missing_feature", "missing_target"}

\* C6: on a predictor that was never trained, a train_model call on an
\* unreadable file or on a dataset without a required column raises nothing
\* and leaves is_trained False and model_weights as they were; a predict_yield
\* that follows runs in heuristic mode and returns a yield of at least 0.
C6_TrainingFailsGracefully ==
    /\ [][(call'.n = call.n + 1 /\ call'.op = "train_model" /\ call'.arg[1] \in FailedLoads
            /\ ~is_trained)
          => (call'.raised = "" /\ ~is_trained' /\ model_weights' = model_weights)]_vars
    /\ [][(call.op = "train_model" /\ call.arg[1] \in FailedLoads /\ ~is_trained
            /\ call'.n = call.n + 1 /\ call'.op = "predict_yield")
          => (call'.ret[2] = "heuristic" /\ call'.ret[1] >= 0)]_vars

\* Training on a dataset without the target column has just failed: the
\* predictor is untrained and its weights are those of construction.
C6_Witness ==
    /\ call.op = "train_model"
    /\ call.arg[1] = "missing_target"
    /\ call.raised = ""
    /\ ~is_trained
    /\ model_weights = InitialModelWeights

\* C16: when predict_yield runs in trained mode on the sensors of the core,
\* each of the seven numeric inputs of the model is the current value of
\* the core's sensor of that quantity.
C16_ModelInputsAreSensorValues ==
    (call.op = "predict_yield" /\ call.ret[2] = "trained") =>
        LET in == input_data(call.arg[1], sensors)
        IN  /\ in.soil_moisture = sensors[1].value
            /\ in.soil_pH = sensors[2].value
            /\ in.temperature_C = sensors[3].value
            /\ in.rainfall_mm = sensors[4].value
            /\ in.humidity = sensors[5].value
            /\ in.sunlight_hours = sensors[6].value
            /\ in.NDVI_index = sensors[7].value

\* C17: after a train_model call that failed, whatever calls came before
\* it and wherever it failed, is_trained is False.
C17_FailedTrainingLeavesUntrained ==
    (call.op = "train_model" /\ call.arg[1] # "ok") => ~is_trained

-----------------------------------------------------------------------------
(* normalize_sensor_value on its own *)

NormalizeSensorValue(value, optimal_range) ==
    /\ Idle
    /\ call' = Called("normalize_sensor_value", <<value, optimal_range>>,
                      <<normalize_sensor_value(value, optimal_range)>>, "")
    /\ UNCHANGED <<coreVars, predictorVars, sensor_states, clock>>

\* The optimal ranges normalize_sensor_value is given: those of the seven
\* sensors, a range of one point and a range next to zero.
NormRanges == {sensor_configs[i].optimal_range : i \in SensorIdx} \cup {<<700, 700>>, <<1, 3>>}

\* The values it is given for a range: below zero, zero, inside the range and
\* on its ends, and outside at growing distances.
NormValues(r) ==
    {-1000, -1, 0, r[1] \div 4, r[1] \div 2, r[1] - 1, r[1], (r[1] + r[2]) \div 2, r[2],
     r[2] + 1, r[2] * 2, r[2] * 4, 1000000}

NextNorm ==
    \E r \in NormRanges : \E value \in NormValues(r) :
        call.n < MaxNormCalls /\ NormalizeSensorValue(value, r)

SpecNorm == Init /\ [][NextNorm]_vars

\* C10: normalize_sensor_value returns exactly 1.0 for a value inside the
\* optimal range and a number in [0, 1) for a value outside; of two values
\* on the same side of the same range the one further out never gets the
\* larger number.
C10_Normalization ==
    /\ [](call.op = "normalize_sensor_value" =>
            LET value == call.arg[1]
                r == call.arg[2]
            IN  IF r[1] <= value /\ value <= r[2]
                THEN call.ret[1] = NormOne
                ELSE 0 <= call.ret[1] /\ call.ret[1] < NormOne)
    /\ [][(call.op = "normalize_sensor_value" /\ call'.op = "normalize_sensor_value"
            /\ call'.n = call.n + 1 /\ call'.arg[2] = call.arg[2]
            /\ \/ call'.arg[1] <= call.arg[1] /\ call.arg[1] < call.arg[2][1]
               \/ call'.arg[1] >= call.arg[1] /\ call.arg[1] > call.arg[2][2])
          => call'.ret[1] <= call.ret[1]]_vars

\* Soil moisture 80.0 against the range 20..40 gives 0.5, after 40.01 gave
\* a larger number below 1.
C10_Witness ==
    /\ call.op = "normalize_sensor_value"
    /\ call.n = 2
    /\ call.arg = <<8000, <<2000, 4000>> >>
    /\ call.ret[1] = NormOne \div 2

-----------------------------------------------------------------------------
(* The learning buffer filled past its capacity *)

\* The draws of the cycle that follows n learning calls: any of Draws for the
\* first cycle and for the cycles around the capacity of the buffer, in
\* between the low and the high reading in turn.
LearnDraws(n) ==
    IF n < 1 \/ n >= 99 THEN Draws
    ELSE {[i \in SensorIdx |-> IF n % 2 = 0 THEN <<-10, 90>> ELSE <<9, 110>>]}

\* The vectors learn_from_data is called with on its own.
LearnVectors == {[i \in SensorIdx |-> 100 * i]}

NextLearn ==
    \/ \E d \in LearnDraws(call.n) : call.n < MaxLearnCalls /\ UpdateSystem(d, 0)
    \/ \E v \in LearnVectors :
            call.n < MaxLearnCalls /\ (call.n < 1 \/ call.n >= 99) /\ LearnFromData(v)

SpecLearn == Init /\ [][NextLearn]_vars

\* The vector the last learning call was given: the argument of
\* learn_from_data, or the readings of the cycle.
LearnedVector ==
    IF call.op = "learn_from_data" THEN call.arg[1] ELSE [i \in SensorIdx |-> sensors[i].value]

\* C11: the learning buffer never holds more than 100 vectors and after n
\* learning calls it holds min(n, 100); a learning call puts its vector at
\* the end, and the vectors before it are those the buffer held, in their
\* order, without the oldest one when the buffer was full.
C11_LearningBufferFIFO ==
    /\ [](Len(learning_data) <= 100 /\ Len(learning_data) = Min(call.n, 100))
    /\ [](call.n > 0 => learning_data[Len(learning_data)] = LearnedVector)
    /\ [][call'.n = call.n + 1 =>
            LET kept == IF Len(learning_data) < 100 THEN learning_data ELSE Tail(learning_data)
            IN  SubSeq(learning_data', 1, Len(learning_data') - 1) = kept]_vars

\* The 101st learning call, a direct one: the buffer holds 100 vectors, the
\* readings of the first cycle are gone and the vector of the call is last.
C11_Witness ==
    /\ call.n = 101
    /\ call.op = "learn_from_data"
    /\ Len(learning_data) = 100
    /\ learning_data[100] = [i \in SensorIdx |-> 100 * i]
    /\ learning_data[1] = learning_data[3]
    /\ learning_data[1] # learning_data[2]

-----------------------------------------------------------------------------
(* The core under the calls of the dashboard *)

NextApp ==
    \/ \E d \in Draws : call.n < MaxAppCalls /\ UpdateSystem(d, 0)
    \/ call.n < MaxAppCalls /\ GetSensorData
    \/ call.n < MaxAppCalls /\ GetCropData
    \/ call.n < MaxAppCalls /\ GetAlerts
    \/ \E alert_id \in AlertIds : call.n < MaxAppCalls /\ ResolveAlert(alert_id)
    \/ Tick

SpecApp == Init /\ [][NextApp]_vars

\* C15: what is seen through a list that get_sensor_data or get_crop_data
\* returned (the sensors' values and statuses, the crops' predicted yields)
\* is the same after an update_system call that follows as before it.
C15_AccessorsReturnSnapshots ==
    [][(call'.op = "update_system" /\ call'.n = call.n + 1) =>
        /\ call.op = "get_sensor_data" =>
                \A k \in 1..Len(call.ret[1]) :
                    /\ SeenThrough(call.ret[1], sensors')[k].value
                            = SeenThrough(call.ret[1], sensors)[k].value
                    /\ SeenThrough(call.ret[1], sensors')[k].status
                            = SeenThrough(call.ret[1], sensors)[k].status
        /\ call.op = "get_crop_data" =>
                \A k \in 1..Len(call.ret[1]) :
                    SeenThrough(call.ret[1], crops')[k].predicted_yield
                        = SeenThrough(call.ret[1], crops)[k].predicted_yield]_vars

\* C20: field_1 is not in the irrigation schedule at construction, and once
\* its flag is True no step of the core (an update cycle, resolve_alert, an
\* accessor) makes it False or removes it.
C20_IrrigationFlagStable ==
    /\ [](call.n = 0 => "field_1" \notin DOMAIN irrigation_schedule)
    /\ [][DictGet(irrigation_schedule, "field_1", FALSE)
            => DictGet(irrigation_schedule', "field_1", FALSE)]_vars

\* A cycle read a soil moisture of 30 or more while the flag was set by an
\* earlier cycle: the flag is still True.
C20_Witness ==
    /\ call.op = "update_system"
    /\ call.n >= 2
    /\ sensors[FindSensor("soil_moisture")].value >= 3000
    /\ DictGet(irrigation_schedule, "field_1", FALSE)

-----------------------------------------------------------------------------
(* Trend detection *)

\* The sensors a test puts into the warning band or back into the optimal
\* range, and the values it gives them: 0.85 min and the middle of the range.
TrendSensors == {1, 2}
TrendValues(i) ==
    LET r == sensor_configs[i].optimal_range
    IN  {(r[1] * 85) \div 100, (r[1] + r[2]) \div 2}

\* A reading vector with soil moisture m and soil pH p, the other columns
\* at the lower ends of their optimal ranges.
Reading(m, p) ==
    [i \in SensorIdx |-> IF i = 1 THEN m ELSE IF i = 2 THEN p
                                 ELSE sensor_configs[i].optimal_range[1]]

\* The vectors learn_from_data is given when the buffer holds n vectors.
\* The first is 20.0 and 6.0 or all zero, the next eight are twice the
\* first, and from the tenth on the vector is the first with its two
\* columns at 110 percent or just above it, at 90 percent or just below
\* it, or unchanged, or all zero.
TrendVectors(n) ==
    IF n = 0 THEN {Reading(2000, 600), [i \in SensorIdx |-> 0]}
    ELSE IF n < 9 THEN {Reading(4000, 1200)}
    ELSE {Reading(2200, 661), Reading(2201, 660), Reading(1800, 539), Reading(1799, 540),
          Reading(2000, 600), [i \in SensorIdx |-> 0]}

\* The draws of a cycle run when the buffer holds n vectors.
TrendDraws(n) ==
    IF n = 0 \/ n >= 9 THEN {[i \in SensorIdx |-> <<9, 110>>]} ELSE {}

NextTrend ==
    \/ \E v \in TrendVectors(Len(learning_data)) :
            call.n < MaxTrendCalls /\ LearnFromData(v)
    \/ \E d \in TrendDraws(Len(learning_data)) :
            call.n < MaxTrendCalls /\ UpdateSystem(d, 0)
    \/ \E i \in TrendSensors : \E v \in TrendValues(i) :
            call.n < MaxTrendCalls /\ UpdateSensorStatus(i, v)
    \/ \E alert_id \in AlertIds : call.n < MaxTrendCalls /\ ResolveAlert(alert_id)

SpecTrend == Init /\ [][NextTrend]_vars

\* The trend as the claim words it: a rise to 110 percent or more, a fall to
\* 90 percent or less.
ClaimedTrend(oldest, newest) ==
    IF newest * 10 >= oldest * 11 THEN "increasing"
    ELSE IF newest * 10 <= oldest * 9 THEN "decreasing"
    ELSE "stable"

\* The trend with a rise above 110 percent and a fall below 90 percent.
StrictTrend(oldest, newest) ==
    IF newest * 10 > oldest * 11 THEN "increasing"
    ELSE IF newest * 10 < oldest * 9 THEN "decreasing"
    ELSE "stable"

\* The step is a learning call: learn_from_data, alone or inside a cycle.
LearningStep ==
    /\ call'.n = call.n + 1
    /\ call'.op \in {"learn_from_data", "update_system"}

\* The predictive alerts of sensor i among the alerts the step appended.
EmittedPredictiveAlerts(i) ==
    {k \in (Len(alerts) + 1)..Len(alerts') : alerts'[k].id \in PredictiveIds(i)}

\* What the claim says of a learning call, given the trend of sensor i
\* over the last ten vectors: a predictive alert of the sensor is appended
\* exactly when the buffer holds ten vectors or more, the trend is not
\* stable, the sensor is in warning and it has no unresolved predictive
\* alert; the alert names the trend.
EmitsAsClaimed(i, trend) ==
    LET n == Len(learning_data')
        due == /\ n >= 10
               /\ trend # "stable"
               /\ sensors'[i].status = "warning"
               /\ UnresolvedPredictiveAlerts(i) = {}
    IN  /\ due <=> EmittedPredictiveAlerts(i) # {}
        /\ \A k \in EmittedPredictiveAlerts(i) :
                /\ Contains(alerts'[k].message, <<"showing", trend, "trend">>)
                /\ ~alerts'[k].resolved

\* C19 as claimed: a learning call emits the predictive alert of a sensor
\* as described, the trend being increasing when the newest of the last ten
\* values is at least 110 percent of the oldest, decreasing when it is at
\* most 90 percent of it.
C19_TrendDetectionInclusive ==
    [][LearningStep =>
        \A i \in SensorIdx :
            LET n == Len(learning_data')
            IN  EmitsAsClaimed(i, IF n >= 10
                                  THEN ClaimedTrend(learning_data'[n - 9][i], learning_data'[n][i])
                                  ELSE "stable")]_vars

\* C19 as amended: the same, the trend being increasing when the newest
\* value is above 110 percent of the oldest and decreasing when it is
\* below 90 percent of it.
C19_TrendDetectionStrict ==
    [][LearningStep =>
        \A i \in SensorIdx :
            LET n == Len(learning_data')
            IN  EmitsAsClaimed(i, IF n >= 10
                                  THEN StrictTrend(learning_data'[n - 9][i], learning_data'[n][i])
                                  ELSE "stable")]_vars

\* The tenth vector came in while both sensors were in warning: soil
\* moisture went from 20.0 to 22.0, exactly 110 percent, and got no alert;
\* soil pH went from 6.0 to 6.61 and got the alert of an increasing trend.
C19_Witness ==
    /\ call.op = "learn_from_data"
    /\ Len(learning_data) = 10
    /\ learning_data[1][1] = 2000 /\ learning_data[10][1] = 2200
    /\ learning_data[1][2] = 600 /\ learning_data[10][2] = 661
    /\ sensors[1].status = "warning" /\ sensors[2].status = "warning"
    /\ UnresolvedPredictiveAlerts(1) = {}
    /\ Len(alerts) = 1
    /\ UnresolvedPredictiveAlerts(2) = {1}
    /\ Contains(alerts[1].message, <<"Soil", "pH", "showing", "increasing", "trend">>)

-----------------------------------------------------------------------------
(* calculate_water_factor on its own *)

CalculateWaterFactor(moisture, optimal_range, water_need) ==
    /\ Idle
    /\ call' = Called("calculate_water_factor", <<moisture, optimal_range, water_need>>,
                      <<calculate_water_factor(moisture, optimal_range, water_need)>>, "")
    /\ UNCHANGED <<coreVars, predictorVars, sensor_states, clock>>

\* The optimal ranges calculate_water_factor is given: that of the soil
\* moisture sensor of the core, that of the simulator (in hundredths), and
\* a range of one point.
WaterRanges == {sensor_configs[FindSensor("soil_moisture")].optimal_range, <<4000, 7000>>, <<3000, 3000>>}

\* The moistures it is given for a range: below zero, zero, a tenth of min,
\* 0.9 min, just below min, the two ends, just above max, twice and ten
\* times max.
WaterMoistures(r) ==
    {-1000, 0, r[1] \div 10, (r[1] * 9) \div 10, r[1] - 1, r[1], r[2], r[2] + 1, r[2] * 2, r[2] * 10}

\* The water_need coefficients: those of crop_coefficients and the default.
WaterNeeds ==
    {crop_coefficients(crop_type).water_need :
        crop_type \in {"Wheat", "Soybean", "Maize", "Cotton", "Rice", "Barley"}}

NextWater ==
    \E r \in WaterRanges : \E moisture \in WaterMoistures(r) : \E water_need \in WaterNeeds :
        call.n < MaxWaterCalls /\ CalculateWaterFactor(moisture, r, water_need)

SpecWater == Init /\ [][NextWater]_vars

\* C21: calculate_water_factor returns a factor between 0.1 and 1.0, and
\* so never more than 1.0 for a moisture outside the optimal range.
C21_WaterFactorBounded ==
    call.op = "calculate_water_factor" =>
        /\ FactorOne \div 10 <= call.ret[1]
        /\ call.ret[1] <= FactorOne

-----------------------------------------------------------------------------
(* Update cycles at the extremes of the draws *)

\* The draws of the cycle run when the buffer holds n vectors.  For the
\* first cycle and from the tenth on, the corners of the draws: random_factor
\* -1.0 or next to 1.0 (10 gives the reading that a draw just below 1.0
\* rounds to), time_factor 0.9 or 1.1.  In between, the middle of both.
CycleDraws(n) ==
    IF n = 0 \/ n >= 9
    THEN {[i \in SensorIdx |-> <<rf, tf>>] : rf \in {-10, 10}, tf \in {90, 110}}
    ELSE {[i \in SensorIdx |-> <<0, 100>>]}

NextCycle ==
    \/ \E d \in CycleDraws(Len(learning_data)) :
            call.n < MaxCycleCalls /\ UpdateSystem(d, 0)
    \/ \E i \in ForcedSensors : \E v \in ForcedValues(i) :
            call.n < MaxCycleCalls /\ UpdateSensorStatus(i, v)

SpecCycle == Init /\ [][NextCycle]_vars

\* C22: after an update cycle every sensor is optimal and get_system_status
\* is Optimal, whatever the draws and whatever the sensors were before; the
\* alerts a cycle appends are irrigation alerts, never an error alert or a
\* predictive alert.
C22_CyclesStayOptimal ==
    /\ [](call.op = "update_system" =>
            /\ \A i \in SensorIdx : sensors[i].status = "optimal"
            /\ get_system_status(sensors) = "Optimal")
    /\ [][(call'.op = "update_system" /\ call'.n = call.n + 1) =>
            /\ Len(alerts') >= Len(alerts)
            /\ \A k \in (Len(alerts) + 1)..Len(alerts') :
                    /\ alerts'[k].type = "info"
                    /\ alerts'[k].id \in IrrigationIds]_vars

\* The tenth cycle drew the highest readings after a first cycle with the
\* lowest: soil moisture rose from 21.6 to 39.6, an increasing trend, every
\* sensor is optimal and the alerts are irrigation alerts.
C22_Witness ==
    /\ call.op = "update_system"
    /\ Len(learning_data) = 10
    /\ learning_data[1][1] = 2160
    /\ learning_data[10][1] = 3960
    /\ sensors[1].value = 3960
    /\ \A i \in SensorIdx : sensors[i].status = "optimal"
    /\ \A k \in 1..Len(alerts) : alerts[k].type = "info"

====
